---- MODULE Spec2Model ----
(***************************************************************************)
(* Remote agent (src/agent.py): command dispatcher fed by two transports   *)
(* (websocket thread and polling thread), plugin registry, self-update and *)
(* the delayed restart threads.                                            *)
(***************************************************************************)
EXTENDS Integers, Sequences, FiniteSets, TLC

\* ------------------------------------------------------------------ bounds
\* Number of commands the control plane creates during one run.
MaxCmds == 2

\* ------------------------------------------------------- program constants
\* time.sleep(2) in do_restart / restart_service
RestartDelay == 2
\* requests.post(..., timeout=10) in GraphQLClient.query
QueryTimeout == 10
\* get_pending_commands(agent_id, limit=10)
PollLimit == 10

\* ------------------------------------------------------------------- data
\* VERSION
VERSION == "2.1.0"

\* Threads that call execute_command: the websocket thread (run_forever:
\* on_ws_open, on_ws_message) and the polling_loop thread.
Threads == {"ws", "poll"}

PluginNames == {"shell", "nginx"}
NoPlugin == "<none>"

\* Plugin source texts, named by what their handle() does.
PluginCodes == {"ok", "ok2", "fail", "nosuccess", "bare", "raise", "nohandle", "badexec"}

\* exec(code, module.__dict__) raises (syntax error, failing import, ...)
ExecRaises(code) == code = "badexec"

\* hasattr(module, 'handle')
HasHandle(code) == code \notin {"nohandle", "badexec"}

\* hashlib.sha256(code.encode()).hexdigest(): injective on the texts used here
Sha256(code) == "sha256:" \o code

\* Agent source texts and the version their 'VERSION = "x"' line carries.
AgentCodes == {"agent-2.1.0", "agent-2.1.0b", "agent-3.0.0", "agent-noversion"}

VersionOf(code) ==
    CASE code = "agent-2.1.0" -> "2.1.0"
      [] code = "agent-2.1.0b" -> "2.1.0"
      [] code = "agent-3.0.0" -> "3.0.0"
      [] OTHER -> "unknown"

\* ------------------------------------------------------- command payloads
\* The 'command' field of an envelope, by what json.loads / .get make of it:
\*   form "invalid"   a string json.loads rejects
\*   form "nonmap"    a string that parses to a non-mapping (a list, a number)
\*   form "nocommand" the envelope has no 'command' key at all
\*   form "map"       a mapping (or a string that parses to one) with 'type'
Cmd(form, type, name, url) == [form |-> form, type |-> type, name |-> name, url |-> url]

Payloads ==
    { Cmd("invalid", "", "", ""),
      Cmd("nonmap", "", "", ""),
      Cmd("nocommand", "", "", ""),
      Cmd("map", "ping", "", ""),
      Cmd("map", "sync_plugins", "", ""),
      Cmd("map", "reload_plugins", "", ""),
      Cmd("map", "list_plugins", "", ""),
      Cmd("map", "self_update", "", ""),
      Cmd("map", "self_update", "", "http://x/agent.py"),
      Cmd("map", "update_plugin", "nginx", "http://x/nginx.py"),
      Cmd("map", "update_plugin", "nginx", ""),
      Cmd("map", "restart", "", ""),
      Cmd("map", "plugin_command", "nginx", ""),
      Cmd("map", "plugin_command", "", ""),
      Cmd("map", "bogus", "", "") }

\* The payloads of the runs that explore the two transports.
TransportPayloads ==
    { Cmd("invalid", "", "", ""),
      Cmd("nonmap", "", "", ""),
      Cmd("nocommand", "", "", ""),
      Cmd("map", "ping", "", ""),
      Cmd("map", "update_plugin", "nginx", "http://x/nginx.py"),
      Cmd("map", "plugin_command", "nginx", ""),
      Cmd("map", "bogus", "", "") }

NoCmd == [id |-> 0, command |-> Cmd("none", "", "", "")]

\* A result mapping: its 'success' entry ("absent" when the key is missing),
\* its 'error' entry ("" when the key is missing) and its other entries.
Result(success, error, data) == [success |-> success, error |-> error, data |-> data]

\* No result (the 'processing' report carries none).
NoResult == Result("none", "", << >>)

\* load_call before any load_plugin call.
NoCall == [name |-> "", code |-> "", checksum |-> "", ok |-> FALSE, executed |-> FALSE]

\* An exception raised inside the try block of execute_command.
Raised(msg) == Result("raised", msg, << >>)

\* What a fetch of a candidate yields: kind "none" (get_agent_update answered
\* nothing, or its request failed), "error" (requests.get of the URL raised)
\* or "candidate" with the version, code and checksum received ("" = absent).
Candidate(kind, version, code, checksum) ==
    [kind |-> kind, version |-> version, code |-> code, checksum |-> checksum]

\* update_call before any self_update call.
\* A plugin name that is a JSON list, as in {"type": "plugin_command",
\* "plugin": ["nginx"]}: the one kind of name a dict cannot look up.
ListName == "[nginx]"

\* No execute_plugin call was made yet.
NoExecCall == [name |-> "", reg |-> << >>, result |-> NoResult]

\* The threads that can be inside Agent.sync_plugins at the same time: the
\* plugin_sync_loop thread and the websocket thread (a sync_plugins frame).
SyncThreads == {"sync", "ws"}

\* A syncing thread that is not inside load_plugin.
NoLoad == [at |-> "idle", name |-> "", code |-> ""]

\* The threads that can be inside Agent.self_update at the same time: one
\* executing a self_update command and the auto_update_loop thread.
UpdateThreads == {"command", "auto"}

\* A thread that is not inside the file steps of self_update.
NoUpdater == [at |-> "idle", current_code |-> "", new_code |-> ""]

NoUpdateCall ==
    [by |-> "", cand |-> Candidate("none", "", "", ""), from_url |-> FALSE,
     force |-> FALSE, io |-> "ok", result |-> NoResult, restart |-> FALSE]

VARIABLES
    server_cmds,      \* control plane: Seq of [command, status], index = command id
    reports,          \* per command id, the update_command_status calls received, in order
    frames,           \* new_command frames in flight on the open connection
    conn,             \* websocket connection state
    ws_connected,     \* Agent.ws_connected
    running,          \* Agent.running
    started,          \* Agent.start() has launched the threads
    pc,               \* per thread: position in its code
    batch,            \* per thread: commands of the current poll cycle not yet executed
    cur,              \* per thread: the envelope execute_command is working on
    result,           \* per thread: the operation's result (or the raised exception)
    sentProcessing,   \* per thread: this invocation has reported 'processing'
    plugins,          \* PluginManager.plugins: name -> source of the active handle
    plugin_files,     \* plugins/<name>.py on disk
    server_plugins,   \* what getPlugins answers: Seq of [name, code, checksum]
    agent_file,       \* contents of agent.py on disk
    backup_file,      \* contents of agent.py.backup on disk
    restart_threads,  \* delayed restart threads still asleep: set of [id, remaining]
    restarted_by,     \* id of the command whose restart thread restarted the service (0: none)
    load_call,        \* the last direct load_plugin call: its arguments and what it returned
    update_call,      \* the last self_update call: its caller, its inputs and what it returned
    auto_loop,        \* auto_update_loop: its position and whether updates.update_url is set
    exec_call,        \* the last direct execute_plugin call: name, registry, what it returned
    loaders,          \* per syncing thread: the load_plugin call it is inside of
    heartbeat,        \* heartbeat_loop: its position and what its last iteration
                      \* reported ("online", "polling") or that it failed ("failed")
    pongs,            \* number of pong frames the agent has sent
    updaters          \* per updating thread: where it is inside self_update's file steps

vars == << server_cmds, reports, frames, conn, ws_connected, running,
           started, pc, batch, cur, result, sentProcessing, plugins, plugin_files,
           server_plugins, agent_file, backup_file, restart_threads, restarted_by,
           load_call, update_call, auto_loop, exec_call, loaders, heartbeat,
           pongs, updaters >>

transportVars == << frames, conn, ws_connected, running, started >>
threadVars == << pc, batch, cur, result, sentProcessing >>
pluginVars == << plugins, plugin_files, server_plugins >>
wireVars == << pongs, updaters >>
taskVars == << exec_call, loaders, heartbeat, wireVars >>
callVars == << load_call, update_call, auto_loop, taskVars >>
updateVars == << agent_file, backup_file >>
restartVars == << restart_threads, restarted_by >>

\* ---------------------------------------------------------------- helpers
Ids == 1..Len(server_cmds)

Envelope(c) == [id |-> c, command |-> server_cmds[c].command]

RECURSIVE PendingFrom(_)
PendingFrom(c) ==
    IF c > Len(server_cmds) THEN << >>
    ELSE (IF server_cmds[c].status = "pending" THEN << Envelope(c) >> ELSE << >>)
         \o PendingFrom(c + 1)

Take(s, n) == SubSeq(s, 1, IF Len(s) < n THEN Len(s) ELSE n)

\* What getPendingCommands answers: the pending commands, at most `limit`.
get_pending_commands == Take(PendingFrom(1), PollLimit)

\* The control plane's side of update_command_status(cmd_id, status, result).
update_command_status(cmd_id, status, res) ==
    /\ reports' = [reports EXCEPT ![cmd_id] = Append(@, [status |-> status, result |-> res])]
    /\ server_cmds' = [server_cmds EXCEPT ![cmd_id].status = status]

Terminal == {"done", "failed"}

\* ------------------------------------------------------------------- Init
\* The state after Agent.__init__: the local plugins are loaded from disk,
\* nothing is connected and no thread runs yet.
Init ==
    /\ server_cmds = << >>
    /\ reports = << >>
    /\ frames = << >>
    /\ conn = "Closed"
    /\ ws_connected = FALSE
    /\ running = TRUE
    /\ started = FALSE
    /\ pc = [t \in Threads |-> "idle"]
    /\ batch = [t \in Threads |-> << >>]
    /\ cur = [t \in Threads |-> NoCmd]
    /\ result = [t \in Threads |-> NoResult]
    /\ sentProcessing = [t \in Threads |-> FALSE]
    /\ plugin_files = [n \in PluginNames |-> IF n = "shell" THEN "ok" ELSE NoPlugin]
    /\ plugins = [n \in PluginNames |-> IF n = "shell" THEN "ok" ELSE NoPlugin]
    /\ server_plugins = << [name |-> "nginx", code |-> "ok", checksum |-> Sha256("ok")] >>
    /\ agent_file = "agent-2.1.0"
    /\ backup_file = ""
    /\ restart_threads = {}
    /\ restarted_by = 0
    /\ load_call = NoCall
    /\ update_call = NoUpdateCall
    /\ auto_loop = [at |-> "off", from_url |-> FALSE]
    /\ exec_call = NoExecCall
    /\ loaders = [t \in SyncThreads |-> NoLoad]
    /\ heartbeat = [at |-> "off", status |-> ""]
    /\ pongs = 0
    /\ updaters = [t \in UpdateThreads |-> NoUpdater]

\* The process is alive: every action of the agent needs it.
Alive == restarted_by = 0

\* ------------------------------------------------- execute_command: parse
\* A parse that swallows the JSON error and carries on with the command.
ParseCommand_lenient(command) ==
    CASE command.form = "nocommand" -> "KeyError"
      [] command.form = "nonmap" -> "AttributeError"
      [] OTHER -> "ok"

\* Lines 663-677: what reading cmd['id'], cmd['command'], json.loads and
\* command.get('type') make of an envelope.
ParseCommand(command) ==
    CASE command.form = "nocommand" -> "KeyError"
      [] command.form = "invalid" -> "invalid"
      [] command.form = "nonmap" -> "AttributeError"
      [] OTHER -> "ok"

\* The operation started without the 'processing' report.
StepAfterParse_skip == "operate"

\* The statement that follows a successful parse: the 'processing' report.
StepAfterParse == "processing"

\* execute_command returns (or poll_commands moves on to its next command).
Finish(t) ==
    /\ sentProcessing' = [sentProcessing EXCEPT ![t] = FALSE]
    /\ result' = [result EXCEPT ![t] = NoResult]
    /\ IF batch[t] # << >>
       THEN /\ pc' = [pc EXCEPT ![t] = "exec"]
            /\ cur' = [cur EXCEPT ![t] = Head(batch[t])]
            /\ batch' = [batch EXCEPT ![t] = Tail(@)]
       ELSE /\ pc' = [pc EXCEPT ![t] = "idle"]
            /\ cur' = [cur EXCEPT ![t] = NoCmd]
            /\ UNCHANGED batch

\* execute_command lines 663-677 for the envelope cur[t].
ExecStart(t) ==
    /\ Alive /\ pc[t] = "exec"
    /\ LET outcome == ParseCommand(cur[t].command) IN
       \/ /\ outcome = "invalid"
          /\ update_command_status(cur[t].id, "failed",
                                   Result("absent", "Invalid command JSON", << >>))
          /\ Finish(t)
       \/ /\ outcome \in {"KeyError", "AttributeError"}
          /\ pc' = [pc EXCEPT ![t] = "raised"]
          /\ UNCHANGED << server_cmds, reports, batch, cur, result, sentProcessing >>
       \/ /\ outcome = "ok"
          /\ pc' = [pc EXCEPT ![t] = StepAfterParse]
          /\ UNCHANGED << server_cmds, reports, batch, cur, result, sentProcessing >>
    /\ UNCHANGED << transportVars, pluginVars, updateVars, restartVars, callVars >>

\* Line 682: self.graphql.update_command_status(cmd_id, 'processing').
ReportProcessing(t) ==
    /\ Alive /\ pc[t] = "processing"
    /\ update_command_status(cur[t].id, "processing", NoResult)
    /\ sentProcessing' = [sentProcessing EXCEPT ![t] = TRUE]
    /\ pc' = [pc EXCEPT ![t] = "operate"]
    /\ UNCHANGED << transportVars, batch, cur, result, pluginVars, updateVars, restartVars, callVars >>

\* ---------------------------------------------------------- plugin manager
\* The registry and the plugin directory as one value the operations map.
Reg(p, f) == [plugins |-> p, plugin_files |-> f]

\* A load_plugin that does not compare the digests.
ChecksumMatches_always(code, checksum) == TRUE

\* A load_plugin that lets a plugin without checksum pass.
ChecksumMatches_absentOk(code, checksum) == checksum = "" \/ Sha256(code) = checksum

\* load_plugin compares sha256(code) with the checksum it was given.
ChecksumMatches(code, checksum) == Sha256(code) = checksum

\* PluginManager.load_plugin(name, code, checksum) run to completion on st;
\* disk_ok says whether writing plugins/<name>.py succeeds. Returns the new
\* registry/directory, the boolean it returns, and whether exec(code) was run.
load_plugin(st, name, code, checksum, disk_ok) ==
    IF ~ChecksumMatches(code, checksum)
    THEN [st |-> st, ok |-> FALSE, executed |-> FALSE]
    ELSE IF ExecRaises(code) THEN [st |-> st, ok |-> FALSE, executed |-> TRUE]
    ELSE IF ~HasHandle(code) THEN [st |-> st, ok |-> FALSE, executed |-> TRUE]
    ELSE LET stored == [st.plugins EXCEPT ![name] = code] IN
         IF disk_ok
         THEN [st |-> Reg(stored, [st.plugin_files EXCEPT ![name] = code]),
               ok |-> TRUE, executed |-> TRUE]
         ELSE [st |-> Reg(stored, st.plugin_files), ok |-> FALSE, executed |-> TRUE]

\* Agent.sync_plugins: load_plugin for every plugin the server lists, in order.
RECURSIVE sync_plugins(_, _)
sync_plugins(st, list) ==
    IF list = << >> THEN st
    ELSE sync_plugins(load_plugin(st, Head(list).name, Head(list).code,
                                  Head(list).checksum, TRUE).st,
                      Tail(list))

\* A reload that empties the registry before it scans the directory.
load_local_plugins_fresh(st) ==
    Reg([n \in PluginNames |->
            IF /\ st.plugin_files[n] # NoPlugin
               /\ ~ExecRaises(st.plugin_files[n])
               /\ HasHandle(st.plugin_files[n])
            THEN st.plugin_files[n]
            ELSE NoPlugin],
        st.plugin_files)

\* PluginManager.load_local_plugins: every plugins/<name>.py that executes and
\* has a handle replaces the registry entry of its name; the others are skipped.
load_local_plugins(st) ==
    Reg([n \in PluginNames |->
            IF /\ st.plugin_files[n] # NoPlugin
               /\ ~ExecRaises(st.plugin_files[n])
               /\ HasHandle(st.plugin_files[n])
            THEN st.plugin_files[n]
            ELSE st.plugins[n]],
        st.plugin_files)

\* The names the not-found message of a registry lists when every unit name
\* is printed, active or not.
list_plugins_all(reg) == PluginNames

\* PluginManager.list_plugins: list(self.plugins.keys())
list_plugins(reg) == {n \in PluginNames : reg[n] # NoPlugin}

\* Line 261: self.plugins.get(name) hashes the name, which raises TypeError
\* for a list or a mapping.
Hashable(name) == name # ListName

\* PluginManager.execute_plugin(name, args): the structured result, or the
\* exception that leaves it. The not-found message (line 264) carries the
\* requested name and list(self.plugins.keys()): data = << name, names >>.
\* A handle's mapping is returned with 'success' added when missing (276-279),
\* another value is wrapped under 'result' (281-284), an exception of the
\* handle becomes a failure (285-290).
execute_plugin(reg, name) ==
    IF ~Hashable(name) THEN Raised("TypeError: unhashable type: 'list'")
    ELSE IF name \notin PluginNames \/ reg[name] = NoPlugin
    THEN Result("false", "Plugin not found", << name, list_plugins(reg) >>)
    ELSE CASE reg[name] = "fail" -> Result("false", "plugin error", << >>)
           [] reg[name] = "raise" -> Result("false", "exception in handle", << >>)
           [] reg[name] = "bare" -> Result("true", "", << "result" >>)
           [] reg[name] = "nosuccess" -> Result("true", "", << "output" >>)
           [] OTHER -> Result("true", "", << >>)

\* ------------------------------------------------------------- self-update
\* An outcome of an operation: its result and the state it leaves.
Out(res, st, af, bf, rs) ==
    [result |-> res, plugins |-> st.plugins, plugin_files |-> st.plugin_files,
     agent_file |-> af, backup_file |-> bf, restart |-> rs]

\* Lines 505-521 and 526-538: the candidate self_update works with. From a
\* URL the version is read off the downloaded text and the checksum is
\* computed from that same text; from the server both are taken as received.
Fetched(cand, from_url) ==
    IF from_url /\ cand.kind = "candidate"
    THEN Candidate("candidate", VersionOf(cand.code), cand.code, Sha256(cand.code))
    ELSE cand

\* Line 543 (in the branch of the server path only):
\* new_version == self.version and not force
VersionShortCircuit(cand, from_url, force) ==
    ~from_url /\ cand.version = VERSION /\ ~force

\* A verification that rejects nothing.
ChecksumRejected_never(code, checksum) == FALSE

\* Lines 556-558: if checksum: ... if actual_checksum != checksum
ChecksumRejected(code, checksum) == checksum # "" /\ Sha256(code) # checksum

\* The backup is only written after agent.py has been overwritten.
BackupAtOverwrite_later(current_code, old_backup) == old_backup

\* Lines 572-580: what agent.py.backup holds when agent.py is opened for
\* writing: the text read from agent.py, the backup's with-block being closed.
BackupAtOverwrite(current_code, old_backup) == current_code

\* A result with the two versions in each other's place.
UpdateResult_swapped(old_version, new_version) ==
    Result("true", "", << "restarting", new_version, old_version >>)

\* Lines 615-621: success, old_version, new_version, restarting.
UpdateResult(old_version, new_version) ==
    Result("true", "", << "restarting", old_version, new_version >>)

\* Agent.self_update(update_url, force) run to completion: cand is what the
\* fetch yields, from_url says which path fetches it, io which file operation
\* fails (str(e) is the result's error), af and bf are agent.py and
\* agent.py.backup. A file whose write failed is left truncated ("").
self_update(cand, from_url, force, io, st, af, bf) ==
    LET c == Fetched(cand, from_url) IN
    IF from_url /\ cand.kind # "candidate"
    THEN Out(Result("false", "404 Client Error: Not Found for url", << >>), st, af, bf, FALSE)
    ELSE IF ~from_url /\ cand.kind # "candidate"
    THEN Out(Result("true", "", << "No update available" >>), st, af, bf, FALSE)
    ELSE IF VersionShortCircuit(c, from_url, force)
    THEN Out(Result("true", "", << "Already at latest version" >>), st, af, bf, FALSE)
    ELSE IF c.code = ""
    THEN Out(Result("false", "No update code received", << >>), st, af, bf, FALSE)
    ELSE IF ChecksumRejected(c.code, c.checksum)
    THEN Out(Result("false", "Checksum mismatch - update rejected", << >>), st, af, bf, FALSE)
    ELSE IF io = "read_fails"
    THEN Out(Result("false", "[Errno 13] Permission denied: agent.py", << >>),
             st, af, bf, FALSE)
    ELSE IF io = "backup_fails"
    THEN Out(Result("false", "[Errno 28] No space left on device", << >>),
             st, af, "", FALSE)
    ELSE IF io = "write_fails"
    THEN Out(Result("false", "[Errno 28] No space left on device", << >>),
             st, "", BackupAtOverwrite(af, bf), FALSE)
    ELSE Out(UpdateResult(VERSION, c.version), st, c.code, BackupAtOverwrite(af, bf), TRUE)

\* What getAgentUpdate can answer: nothing, a new version with its checksum,
\* with a wrong checksum, with no checksum, the running version with its
\* checksum or with a wrong one, or no code.
UpdateAnswers ==
    { Candidate("none", "", "", ""),
      Candidate("candidate", "3.0.0", "agent-3.0.0", Sha256("agent-3.0.0")),
      Candidate("candidate", "3.0.0", "agent-3.0.0", Sha256("agent-2.1.0")),
      Candidate("candidate", "3.0.0", "agent-3.0.0", ""),
      Candidate("candidate", "2.1.0", "agent-2.1.0b", Sha256("agent-2.1.0b")),
      Candidate("candidate", "2.1.0", "agent-2.1.0b", Sha256("agent-3.0.0")),
      Candidate("candidate", "3.0.0", "", "") }

\* What the URL of a self_update can serve: an error, a new version, the
\* running version, an empty body.
UrlAnswers ==
    { Candidate("error", "", "", ""),
      Candidate("candidate", "", "agent-3.0.0", ""),
      Candidate("candidate", "", "agent-2.1.0b", ""),
      Candidate("candidate", "", "", "") }

\* The file operations of self_update that can fail.
IoFaults == {"ok", "read_fails", "backup_fails", "write_fails"}

\* One run of self_update: what its fetch yields, its arguments, its fault.
UpdateCall(cand, from_url, force, io) ==
    [cand |-> cand, from_url |-> from_url, force |-> force, io |-> io]

\* Every run of self_update considered.
UpdateCalls ==
    { UpdateCall(cand, FALSE, force, io) :
        cand \in UpdateAnswers, force \in BOOLEAN, io \in IoFaults }
    \cup
    { UpdateCall(cand, TRUE, force, io) :
        cand \in UrlAnswers, force \in BOOLEAN, io \in IoFaults }

\* Lines 723-725: the runs a self_update command can lead to (the commands
\* here carry no 'force' key, and the file operations succeed).
CommandUpdateCalls(command) ==
    { c \in UpdateCalls : /\ c.from_url = (command.url # "")
                          /\ ~c.force
                          /\ c.io = "ok" }

RunUpdate(c, st, af, bf) == self_update(c.cand, c.from_url, c.force, c.io, st, af, bf)

\* update_call after the run c made by `by` ended with outcome out.
UpdateRecord(by, c, out) ==
    [by |-> by, cand |-> c.cand, from_url |-> c.from_url, force |-> c.force,
     io |-> c.io, result |-> out.result, restart |-> out.restart]

\* What the plugin URL of an update_plugin command can serve ("" = the GET fails).
UrlPluginCodes == {"ok2", "nohandle", ""}

\* Agent.update_plugin_from_url(name, url) with the body `code` downloaded.
update_plugin_from_url(st, name, code, af, bf) ==
    IF code = ""
    THEN Out(Result("false", "download failed", << >>), st, af, bf, FALSE)
    ELSE LET r == load_plugin(st, name, code, Sha256(code), TRUE) IN
         IF r.ok
         THEN Out(Result("true", "", << "updated" >>), r.st, af, bf, FALSE)
         ELSE Out(Result("false", "Failed to load plugin", << >>), r.st, af, bf, FALSE)

\* ---------------------------------------------- execute_command: operation
\* Lines 684-786: the outcomes the operation of `command` can have in the
\* current state (one per answer of the control plane or of the URL).
Perform(command) ==
    LET st == Reg(plugins, plugin_files)
        same(res) == Out(res, st, agent_file, backup_file, FALSE)
        type == command.type
    IN  CASE type = "ping" ->
               { same(Result("absent", "", << "pong" >>)) }
          [] type = "sync_plugins" ->
               { Out(Result("true", "", << >>), sync_plugins(st, server_plugins),
                     agent_file, backup_file, FALSE),
                 same(Result("true", "", << >>)),
                 same(Raised("AttributeError")) }
          [] type = "reload_plugins" ->
               { Out(Result("true", "", << >>), load_local_plugins(st),
                     agent_file, backup_file, FALSE) }
          [] type \in {"list_plugins", "get_status", "check_update"} ->
               { same(Result("true", "", << >>)) }
          [] type = "self_update" ->
               { RunUpdate(c, st, agent_file, backup_file)
                   : c \in CommandUpdateCalls(command) }
          [] type = "update_plugin" ->
               IF command.name = "" \/ command.url = ""
               THEN { same(Result("false", "Missing 'name' or 'url' in command", << >>)) }
               ELSE { update_plugin_from_url(st, command.name, code, agent_file, backup_file)
                        : code \in UrlPluginCodes }
          [] type = "restart" ->
               { Out(Result("true", "", << "Agent restarting..." >>), st,
                     agent_file, backup_file, TRUE) }
          [] type = "plugin_command" ->
               IF command.name = ""
               THEN { same(Result("false", "Missing 'plugin' field in command", << >>)) }
               ELSE { same(execute_plugin(plugins, command.name)) }
          [] OTHER ->
               { same(Result("absent", "Unknown command type", << >>)) }

\* The statement that follows the operation: the terminal report.
StepAfterOperate == "terminal"

\* Lines 684-786 for the command of thread t, and the restart thread it starts.
Operate(t) ==
    /\ Alive /\ pc[t] = "operate"
    /\ \E out \in Perform(cur[t].command) :
         /\ result' = [result EXCEPT ![t] = out.result]
         /\ plugins' = out.plugins
         /\ plugin_files' = out.plugin_files
         /\ agent_file' = out.agent_file
         /\ backup_file' = out.backup_file
         /\ restart_threads' =
               IF out.restart
               THEN restart_threads \cup {[id |-> cur[t].id, remaining |-> RestartDelay]}
               ELSE restart_threads
         /\ IF cur[t].command.type = "self_update"
            THEN \E c \in CommandUpdateCalls(cur[t].command) :
                    /\ out = RunUpdate(c, Reg(plugins, plugin_files), agent_file, backup_file)
                    /\ update_call' = UpdateRecord("command", c, out)
            ELSE update_call' = update_call
    /\ pc' = [pc EXCEPT ![t] = StepAfterOperate]
    /\ UNCHANGED << server_cmds, reports, transportVars, batch, cur, sentProcessing,
                    server_plugins, restarted_by, load_call, auto_loop, taskVars >>

\* A status rule that takes a result without a success entry as a failure.
CommandStatus_strict(res) == IF res.success = "true" THEN "done" ELSE "failed"

\* Line 789: status = 'done' if result.get('success', True) else 'failed'
CommandStatus(res) == IF res.success \in {"absent", "true"} THEN "done" ELSE "failed"

\* Lines 788-798: the terminal report, of the result or of the caught exception.
ReportTerminal(t) ==
    /\ Alive /\ pc[t] = "terminal"
    /\ IF result[t].success = "raised"
       THEN update_command_status(cur[t].id, "failed",
                                  Result("absent", result[t].error, << >>))
       ELSE update_command_status(cur[t].id, CommandStatus(result[t]), result[t])
    /\ Finish(t)
    /\ UNCHANGED << transportVars, pluginVars, updateVars, restartVars, callVars >>

\* --------------------------------------------------------------- transport
\* Agent.start(): the initial plugin sync (the server answers or does not),
\* the background threads and the first websocket connection.
Start ==
    /\ Alive /\ ~started
    /\ started' = TRUE
    /\ conn' = "Connecting"
    /\ \E st \in {Reg(plugins, plugin_files),
                  sync_plugins(Reg(plugins, plugin_files), server_plugins)} :
         /\ plugins' = st.plugins
         /\ plugin_files' = st.plugin_files
    /\ UNCHANGED << server_cmds, reports, frames, ws_connected, running,
                    threadVars, server_plugins, updateVars, restartVars, callVars >>

\* The control plane creates a command for this agent and, if the agent is
\* connected, pushes it in a new_command frame.
CreateCommand(P) ==
    /\ Len(server_cmds) < MaxCmds
    /\ \E p \in P :
         /\ server_cmds' = Append(server_cmds, [command |-> p, status |-> "pending"])
         /\ frames' = IF conn = "Open"
                      THEN Append(frames, [id |-> Len(server_cmds) + 1, command |-> p])
                      ELSE frames
    /\ reports' = Append(reports, << >>)
    /\ UNCHANGED << conn, ws_connected, running, started, threadVars, pluginVars,
                    updateVars, restartVars, callVars >>

\* on_ws_open: set the flag, then poll_commands for missed commands.
on_ws_open ==
    /\ Alive /\ started /\ conn = "Connecting" /\ pc["ws"] = "idle"
    /\ conn' = "Open"
    /\ ws_connected' = TRUE
    /\ pc' = [pc EXCEPT !["ws"] = "fetch"]
    /\ UNCHANGED << server_cmds, reports, frames, running, started, batch, cur,
                    result, sentProcessing, pluginVars, updateVars, restartVars, callVars >>

\* A frame whose text json.loads (line 895) rejects.
MalformedFrame == [id |-> 0, command |-> Cmd("badframe", "", "", "")]

\* The server (or whatever sits on the connection) sends a malformed frame.
SendMalformedFrame ==
    /\ conn = "Open" /\ frames = << >>
    /\ frames' = << MalformedFrame >>
    /\ UNCHANGED << server_cmds, reports, conn, ws_connected, running, started,
                    threadVars, pluginVars, updateVars, restartVars, callVars >>

\* A frame {"type": "ping"} and a frame of a type on_ws_message has no
\* branch for.
PingFrame == [id |-> 0, command |-> Cmd("pingframe", "", "", "")]
UnknownFrame == [id |-> 0, command |-> Cmd("unknownframe", "", "", "")]

\* The pong frames the agent may be made to send.
MaxPongs == 2

\* The server sends a ping frame or a frame of an unknown type.
SendControlFrame ==
    /\ conn = "Open" /\ frames = << >> /\ pongs < MaxPongs
    /\ \E f \in {PingFrame, UnknownFrame} : frames' = << f >>
    /\ UNCHANGED << server_cmds, reports, conn, ws_connected, running, started,
                    threadVars, pluginVars, updateVars, restartVars, callVars >>

\* A handler that answers every frame with a pong.
PongsSent_echo(frame) == 1

\* Lines 907-909: ws.send(json.dumps({"type": "pong"})) for a ping frame.
PongsSent(frame) == IF frame = PingFrame THEN 1 ELSE 0

\* on_ws_message: for a new_command frame, execute_command(data.get('command'));
\* for a ping frame, one pong; a frame of another type matches no branch; for
\* a malformed frame json.loads raises, the except clause of line 911 logs
\* it and the handler returns.
on_ws_message ==
    /\ Alive /\ conn = "Open" /\ pc["ws"] = "idle" /\ frames # << >>
    /\ frames' = Tail(frames)
    /\ pongs' = pongs + PongsSent(Head(frames))
    /\ IF Head(frames) \in {MalformedFrame, PingFrame, UnknownFrame}
       THEN UNCHANGED << cur, pc >>
       ELSE /\ cur' = [cur EXCEPT !["ws"] = Head(frames)]
            /\ pc' = [pc EXCEPT !["ws"] = "exec"]
    /\ UNCHANGED << server_cmds, reports, conn, ws_connected, running, started,
                    batch, result, sentProcessing, pluginVars, updateVars, restartVars,
                    load_call, update_call, auto_loop, exec_call, loaders, heartbeat,
                    updaters >>

\* An error handler that leaves the connectivity flag as it was.
FlagAfterError_kept(flag) == flag

\* Line 917: self.ws_connected = False
FlagAfterError(flag) == FALSE

\* on_ws_error: the connection failed (while connecting or open).
on_ws_error ==
    /\ Alive /\ conn \in {"Connecting", "Open"} /\ pc["ws"] = "idle"
    /\ ws_connected' = FlagAfterError(ws_connected)
    /\ conn' = "Closing"
    /\ frames' = << >>
    /\ UNCHANGED << server_cmds, reports, running, started, threadVars,
                    pluginVars, updateVars, restartVars, callVars >>

\* on_ws_close lines 921-925: clear the flag and sleep; the connection is
\* closed and the websocket thread is in time.sleep(5).
on_ws_close ==
    /\ Alive /\ conn \in {"Open", "Closing"} /\ pc["ws"] = "idle"
    /\ ws_connected' = FALSE
    /\ frames' = << >>
    /\ conn' = "Closed"
    /\ pc' = [pc EXCEPT !["ws"] = "reconnect"]
    /\ UNCHANGED << server_cmds, reports, running, started, batch, cur, result,
                    sentProcessing, pluginVars, updateVars, restartVars, callVars >>

\* A close handler that connects again whatever self.running says.
Reconnects_always(r) == TRUE

\* Line 926: if self.running
Reconnects(r) == r

\* on_ws_close lines 926-927, after the sleep: start_websocket() if the agent
\* is still running, else the handler returns and nothing connects again.
reconnect ==
    /\ Alive /\ pc["ws"] = "reconnect"
    /\ conn' = IF Reconnects(running) THEN "Connecting" ELSE conn
    /\ pc' = [pc EXCEPT !["ws"] = "idle"]
    /\ UNCHANGED << server_cmds, reports, frames, ws_connected, running, started,
                    batch, cur, result, sentProcessing, pluginVars, updateVars,
                    restartVars, callVars >>

\* KeyboardInterrupt in start(): running = False, self.ws.close().
Shutdown ==
    /\ Alive /\ started /\ running
    /\ running' = FALSE
    /\ conn' = IF conn \in {"Connecting", "Open"} THEN "Closing" ELSE conn
    /\ UNCHANGED << server_cmds, reports, frames, ws_connected, started,
                    threadVars, pluginVars, updateVars, restartVars, callVars >>

\* A polling loop that polls whatever the flag says.
PollSuppressed_never(flag) == FALSE

\* Line 828: if not self.ws_connected
PollSuppressed(flag) == flag

\* polling_loop: one pass of `while self.running: if not self.ws_connected:`.
polling_loop ==
    /\ Alive /\ started /\ pc["poll"] = "idle"
    /\ \/ /\ ~running
          /\ pc' = [pc EXCEPT !["poll"] = "exited"]
       \/ /\ running /\ ~PollSuppressed(ws_connected)
          /\ pc' = [pc EXCEPT !["poll"] = "fetch"]
    /\ UNCHANGED << server_cmds, reports, transportVars, batch, cur, result,
                    sentProcessing, pluginVars, updateVars, restartVars, callVars >>

\* poll_commands: get_pending_commands answers (a batch, or nothing on a
\* failed or malformed answer); the batch is then executed in order.
poll_commands(t) ==
    /\ Alive /\ pc[t] = "fetch"
    /\ \/ /\ get_pending_commands # << >>
          /\ cur' = [cur EXCEPT ![t] = Head(get_pending_commands)]
          /\ batch' = [batch EXCEPT ![t] = Tail(get_pending_commands)]
          /\ pc' = [pc EXCEPT ![t] = "exec"]
       \/ /\ pc' = [pc EXCEPT ![t] = "idle"]
          /\ UNCHANGED << cur, batch >>
    /\ UNCHANGED << server_cmds, reports, transportVars, result, sentProcessing,
                    pluginVars, updateVars, restartVars, callVars >>

\* An exception that left execute_command reaches the caller's except clause
\* (polling_loop, on_ws_open, on_ws_message): the rest of the batch is dropped.
CatchInCaller(t) ==
    /\ Alive /\ pc[t] = "raised"
    /\ pc' = [pc EXCEPT ![t] = "idle"]
    /\ cur' = [cur EXCEPT ![t] = NoCmd]
    /\ batch' = [batch EXCEPT ![t] = << >>]
    /\ UNCHANGED << server_cmds, reports, transportVars, result, sentProcessing,
                    pluginVars, updateVars, restartVars, callVars >>

\* ---------------------------------------------------------- restart threads
\* Positions in which a thread waits for an HTTP request of GraphQLClient.query.
HttpPcs == {"fetch", "processing", "terminal"}

\* Positions a thread leaves without waiting for anything.
LocalPcs == {"exec", "raised"}

\* Time passes by one second while restart threads sleep. A local step takes
\* no time; an HTTP request may last up to QueryTimeout, and no request is
\* older than the oldest sleeping restart thread's sleep so far when it matters:
\* time only passes here while some thread still has remaining > 0, so at most
\* RestartDelay seconds pass in a run.
Tick ==
    /\ Alive /\ restart_threads # {}
    /\ \A r \in restart_threads : r.remaining > 0
    /\ \A t \in Threads :
         /\ pc[t] \notin LocalPcs
         /\ pc[t] \in HttpPcs => RestartDelay <= QueryTimeout
    /\ restart_threads' = {[r EXCEPT !.remaining = @ - 1] : r \in restart_threads}
    /\ UNCHANGED << server_cmds, reports, transportVars, threadVars, pluginVars,
                    updateVars, restarted_by, callVars >>

\* do_restart / restart_service after its sleep: launchctl or systemctl
\* restarts the service, which ends this process.
do_restart ==
    /\ Alive
    /\ \E r \in restart_threads :
         /\ r.remaining = 0
         /\ restarted_by' = r.id
    /\ UNCHANGED << server_cmds, reports, transportVars, threadVars, pluginVars,
                    updateVars, restart_threads, callVars >>

\* ------------------------------------------------------------------- Spec
\* The dispatcher fed by both transports.
Next ==
    \/ Start
    \/ CreateCommand(TransportPayloads)
    \/ on_ws_open
    \/ on_ws_message
    \/ on_ws_error
    \/ on_ws_close
    \/ reconnect
    \/ polling_loop
    \/ \E t \in Threads : poll_commands(t)
    \/ \E t \in Threads : ExecStart(t)
    \/ \E t \in Threads : ReportProcessing(t)
    \/ \E t \in Threads : Operate(t)
    \/ \E t \in Threads : ReportTerminal(t)
    \/ \E t \in Threads : CatchInCaller(t)

Spec == Init /\ [][Next]_vars

\* The dispatcher with every kind of command and the restart threads, fed by
\* the polling thread while the websocket server cannot be reached.
NextOps ==
    \/ Start
    \/ CreateCommand(Payloads)
    \/ Shutdown
    \/ polling_loop
    \/ poll_commands("poll")
    \/ ExecStart("poll")
    \/ ReportProcessing("poll")
    \/ Operate("poll")
    \/ ReportTerminal("poll")
    \/ CatchInCaller("poll")
    \/ Tick
    \/ do_restart

SpecOps == Init /\ [][NextOps]_vars

\* ---------------------------------------------------------------- SpecConn
\* The commands the control plane creates here: ping.
ConnPayloads == { Cmd("map", "ping", "", "") }

\* The connection state machine and the two transports, with commands that
\* execute without fault, until the agent is shut down.
NextConn ==
    \/ Start
    \/ CreateCommand(ConnPayloads)
    \/ on_ws_open
    \/ on_ws_message
    \/ on_ws_error
    \/ on_ws_close
    \/ reconnect
    \/ Shutdown
    \/ polling_loop
    \/ \E t \in Threads : poll_commands(t)
    \/ \E t \in Threads : ExecStart(t)
    \/ \E t \in Threads : ReportProcessing(t)
    \/ \E t \in Threads : Operate(t)
    \/ \E t \in Threads : ReportTerminal(t)

SpecConn == Init /\ [][NextConn]_vars

\* The websocket thread is scheduled: the sleep of on_ws_close ends and the
\* handler goes on (the thread is not starved forever).
SpecConnLive == SpecConn /\ WF_vars(reconnect)

\* ---------------------------------------------------------------- SpecBeat
\* The position of a loop after the except clause of its try caught a fault
\* of the iteration, for a loop whose except clause ends it.
ResumeAfterFault_ends(top) == "exited"

\* The position of a loop after the except clause of its try caught a fault
\* of the iteration (lines 818-821, 848-849, 889-890): the while test again.
ResumeAfterFault(top) == top

\* A heartbeat that reports the default of report_heartbeat's status.
HeartbeatStatus_online(flag) == "online"

\* Line 816: 'online' if self.ws_connected else 'polling'
HeartbeatStatus(flag) == IF flag THEN "online" ELSE "polling"

\* Line 977: start() launches the heartbeat thread.
heartbeat_start ==
    /\ Alive /\ started /\ heartbeat.at = "off"
    /\ heartbeat' = [heartbeat EXCEPT !.at = "top"]
    /\ UNCHANGED << server_cmds, reports, transportVars, threadVars, pluginVars,
                    updateVars, restartVars, load_call, update_call, auto_loop,
                    exec_call, loaders, wireVars >>

\* Line 811: while self.running (after the sleep of the previous pass).
heartbeat_top ==
    /\ Alive /\ heartbeat.at = "top"
    /\ heartbeat' = [heartbeat EXCEPT !.at = IF running THEN "post" ELSE "exited"]
    /\ UNCHANGED << server_cmds, reports, transportVars, threadVars, pluginVars,
                    updateVars, restartVars, load_call, update_call, auto_loop,
                    exec_call, loaders, wireVars >>

\* Lines 812-821: report_heartbeat with the status read from the flag, or a
\* fault inside it that the except clause catches; then the sleep.
heartbeat_post ==
    /\ Alive /\ heartbeat.at = "post"
    /\ \/ heartbeat' = [at |-> "top", status |-> HeartbeatStatus(ws_connected)]
       \/ heartbeat' = [at |-> ResumeAfterFault("top"), status |-> "failed"]
    /\ UNCHANGED << server_cmds, reports, transportVars, threadVars, pluginVars,
                    updateVars, restartVars, load_call, update_call, auto_loop,
                    exec_call, loaders, wireVars >>

\* The commands created while the heartbeat loop is observed.
MaxBeatCmds == 1

\* The heartbeat thread next to the two transports executing commands.
NextBeat ==
    \/ Start
    \/ (Len(server_cmds) < MaxBeatCmds /\ CreateCommand(ConnPayloads))
    \/ on_ws_open
    \/ on_ws_message
    \/ on_ws_error
    \/ on_ws_close
    \/ reconnect
    \/ Shutdown
    \/ polling_loop
    \/ \E t \in Threads : poll_commands(t)
    \/ \E t \in Threads : ExecStart(t)
    \/ \E t \in Threads : ReportProcessing(t)
    \/ \E t \in Threads : Operate(t)
    \/ \E t \in Threads : ReportTerminal(t)
    \/ heartbeat_start
    \/ heartbeat_top
    \/ heartbeat_post

\* The heartbeat thread is scheduled again and again; nothing is assumed of
\* the threads that execute commands, which may stay inside one forever.
SpecBeat ==
    /\ Init /\ [][NextBeat]_vars
    /\ WF_vars(heartbeat_start) /\ WF_vars(heartbeat_top) /\ WF_vars(heartbeat_post)

\* ---------------------------------------------------------- SpecRegistry
\* The plugin registry on its own: load_plugin called with every combination
\* of name, source and checksum, reloads from disk, and edits of the files.
RegistryCodes == {"ok", "ok2", "fail", "nohandle", "badexec"}

\* The checksums a caller can supply: the digest of some source, or none ("").
Checksums == {Sha256(c) : c \in RegistryCodes} \cup {""}

\* A call PluginManager.load_plugin(name, code, checksum).
LoadPluginCall ==
    \E name \in PluginNames, code \in RegistryCodes, checksum \in Checksums,
       disk_ok \in BOOLEAN :
       LET r == load_plugin(Reg(plugins, plugin_files), name, code, checksum, disk_ok) IN
       /\ plugins' = r.st.plugins
       /\ plugin_files' = r.st.plugin_files
       /\ load_call' = [name |-> name, code |-> code, checksum |-> checksum,
                        ok |-> r.ok, executed |-> r.executed]
       /\ UNCHANGED << server_cmds, reports, transportVars, threadVars, server_plugins,
                       updateVars, restartVars, update_call, auto_loop, taskVars >>

\* A reload_plugins command or a restart: PluginManager.load_local_plugins().
ReloadLocalPlugins ==
    /\ LET st == load_local_plugins(Reg(plugins, plugin_files)) IN
         /\ plugins' = st.plugins
         /\ plugin_files' = st.plugin_files
    /\ UNCHANGED << server_cmds, reports, transportVars, threadVars, server_plugins,
                    updateVars, restartVars, callVars >>

\* Somebody edits, adds or deletes plugins/<name>.py, with one of `codes`.
WritePluginFile(codes) ==
    /\ \E name \in PluginNames, code \in codes \cup {NoPlugin} :
         plugin_files' = [plugin_files EXCEPT ![name] = code]
    /\ UNCHANGED << server_cmds, reports, transportVars, threadVars, plugins,
                    server_plugins, updateVars, restartVars, callVars >>

EditPluginFile == WritePluginFile(RegistryCodes)

NextRegistry ==
    \/ LoadPluginCall
    \/ ReloadLocalPlugins
    \/ EditPluginFile

SpecRegistry == Init /\ [][NextRegistry]_vars

\* ------------------------------------------------------------ SpecInvoke
\* The sources a plugin file can hold here: every kind of handle.
InvokeCodes == {"ok", "fail", "nosuccess", "bare", "raise", "nohandle"}

\* The names execute_plugin is called with: the unit names, a name no unit
\* has, and a name that is a JSON list.
InvokeNames == PluginNames \cup {"ghost", ListName}

\* A call PluginManager.execute_plugin(name, args) on the current registry.
ExecutePluginCall ==
    /\ \E name \in InvokeNames :
         exec_call' = [name |-> name, reg |-> plugins,
                       result |-> execute_plugin(plugins, name)]
    /\ UNCHANGED << server_cmds, reports, transportVars, threadVars, pluginVars,
                    updateVars, restartVars, load_call, update_call, auto_loop,
                    loaders, heartbeat, wireVars >>

\* Invocations of the units that edits of the plugin directory and reloads
\* put into the registry.
NextInvoke ==
    \/ WritePluginFile(InvokeCodes)
    \/ ReloadLocalPlugins
    \/ ExecutePluginCall

SpecInvoke == Init /\ [][NextInvoke]_vars

\* ------------------------------------------------------------ SpecReload
\* The reload_plugins command.
ReloadPayloads == { Cmd("map", "reload_plugins", "", "") }

\* What an edited plugin file can hold: a working source, another working
\* source, one without handle, one whose execution raises.
ReloadCodes == {"ok", "ok2", "nohandle", "badexec"}

\* reload_plugins commands executed by the polling thread while the plugin
\* files are edited.
NextReload ==
    \/ Start
    \/ CreateCommand(ReloadPayloads)
    \/ WritePluginFile(ReloadCodes)
    \/ polling_loop
    \/ poll_commands("poll")
    \/ ExecStart("poll")
    \/ ReportProcessing("poll")
    \/ Operate("poll")
    \/ ReportTerminal("poll")

SpecReload == Init /\ [][NextReload]_vars

\* -------------------------------------------------------------- SpecSync
\* What getPlugins answers over time for the nginx plugin: a source with its
\* digest, or a source with another source's digest.
SyncLists ==
    { << [name |-> "nginx", code |-> code, checksum |-> Sha256(code)] >> :
        code \in {"ok", "ok2", "nohandle"} }
    \cup { << [name |-> "nginx", code |-> "fail", checksum |-> Sha256("ok")] >> }

\* The plugin's author publishes another version on the control plane.
PublishPlugin ==
    /\ \E list \in SyncLists : server_plugins' = list
    /\ UNCHANGED << server_cmds, reports, transportVars, threadVars, plugins,
                    plugin_files, updateVars, restartVars, callVars >>

\* Agent.sync_plugins on thread t, up to load_plugin line 242: the list is
\* fetched (465) and load_plugin verifies, executes and stores the module in
\* the registry; the file is not written yet.
sync_store(t) ==
    /\ Alive /\ running /\ loaders[t].at = "idle"
    /\ LET p == server_plugins[1]
           r == load_plugin(Reg(plugins, plugin_files), p.name, p.code, p.checksum, TRUE)
       IN IF r.ok
          THEN /\ plugins' = r.st.plugins
               /\ loaders' = [loaders EXCEPT ![t] = [at |-> "write", name |-> p.name,
                                                      code |-> p.code]]
          ELSE UNCHANGED << plugins, loaders >>
    /\ UNCHANGED << server_cmds, reports, transportVars, threadVars, plugin_files,
                    server_plugins, updateVars, restartVars, load_call, update_call,
                    auto_loop, exec_call, heartbeat, wireVars >>

\* load_plugin lines 245-250 on thread t: plugins/<name>.py is written with
\* the code this call was given, and load_plugin returns True.
sync_write(t) ==
    /\ Alive /\ loaders[t].at = "write"
    /\ plugin_files' = [plugin_files EXCEPT ![loaders[t].name] = loaders[t].code]
    /\ loaders' = [loaders EXCEPT ![t] = NoLoad]
    /\ UNCHANGED << server_cmds, reports, transportVars, threadVars, plugins,
                    server_plugins, updateVars, restartVars, load_call, update_call,
                    auto_loop, exec_call, heartbeat, wireVars >>

\* The plugin sync run by the plugin_sync_loop thread and by the websocket
\* thread (a sync_plugins frame) at the same time; no file write fails.
NextSync ==
    \/ PublishPlugin
    \/ \E t \in SyncThreads : sync_store(t)
    \/ \E t \in SyncThreads : sync_write(t)

SpecSync == Init /\ [][NextSync]_vars

\* ------------------------------------------------------------ SpecUpdate
\* What getPlugins can answer for the nginx plugin: a working or a handle-less
\* source, with its own digest, another source's digest, or none.
SyncAnswers ==
    { << [name |-> "nginx", code |-> code, checksum |-> checksum] >> :
        code \in {"ok2", "nohandle"},
        checksum \in {Sha256("ok2"), Sha256("nohandle"), ""} }

\* plugin_sync_loop: Agent.sync_plugins() with the list the server answers;
\* load_call keeps the load_plugin call made for the list's plugin.
plugin_sync_loop ==
    /\ Alive /\ running
    /\ \E list \in SyncAnswers :
         LET st == Reg(plugins, plugin_files)
             r == load_plugin(st, list[1].name, list[1].code, list[1].checksum, TRUE)
         IN /\ server_plugins' = list
            /\ plugins' = sync_plugins(st, list).plugins
            /\ plugin_files' = sync_plugins(st, list).plugin_files
            /\ load_call' = [name |-> list[1].name, code |-> list[1].code,
                             checksum |-> list[1].checksum,
                             ok |-> r.ok, executed |-> r.executed]
    /\ UNCHANGED << server_cmds, reports, transportVars, threadVars, updateVars,
                    restartVars, update_call, auto_loop, taskVars >>

\* What the run c of self_update does to the files and the restart threads
\* (the restart thread of a run outside of a command has id -1).
ApplyUpdate(by, id, c) ==
    LET out == RunUpdate(c, Reg(plugins, plugin_files), agent_file, backup_file) IN
    /\ agent_file' = out.agent_file
    /\ backup_file' = out.backup_file
    /\ restart_threads' =
          IF out.restart
          THEN restart_threads \cup {[id |-> id, remaining |-> RestartDelay]}
          ELSE restart_threads
    /\ update_call' = UpdateRecord(by, c, out)

\* Agent.self_update(update_url, force) called with every candidate, argument
\* and file fault.
SelfUpdateCall ==
    /\ Alive
    /\ \E c \in UpdateCalls : ApplyUpdate("call", -1, c)
    /\ UNCHANGED << server_cmds, reports, transportVars, threadVars, pluginVars,
                    restarted_by, load_call, auto_loop, taskVars >>

\* The update engine and the plugin sync within the RestartDelay seconds that
\* follow an applied update (no restart thread has woken up yet).
NextUpdate ==
    \/ plugin_sync_loop
    \/ SelfUpdateCall

SpecUpdate == Init /\ [][NextUpdate]_vars

\* -------------------------------------------------------------- SpecAuto
\* result.get('restarting')
HasRestarting(res) == \E i \in DOMAIN res.data : res.data[i] = "restarting"

\* A loop that never takes its break.
LoopBreaks_never(res) == FALSE

\* Line 885: if result.get('success') and result.get('restarting'): break
LoopBreaks(res) == res.success = "true" /\ HasRestarting(res)

\* Lines 853-860: the thread start() launches returns at once when
\* updates.auto_update is off, else reads updates.update_url and loops.
auto_update_start ==
    /\ Alive /\ started /\ auto_loop.at = "off"
    /\ \E enabled \in BOOLEAN, url \in BOOLEAN :
         auto_loop' = [at |-> IF enabled THEN "top" ELSE "disabled", from_url |-> url]
    /\ UNCHANGED << server_cmds, reports, transportVars, threadVars, pluginVars,
                    updateVars, restartVars, load_call, update_call, taskVars >>

\* Line 862: while self.running, then time.sleep(interval).
auto_update_top ==
    /\ Alive /\ auto_loop.at = "top"
    /\ auto_loop' = [auto_loop EXCEPT !.at = IF running THEN "sleeping" ELSE "exited"]
    /\ UNCHANGED << server_cmds, reports, transportVars, threadVars, pluginVars,
                    updateVars, restartVars, load_call, update_call, taskVars >>

\* Lines 865-887: one check after the sleep. With a URL, self_update(url);
\* without, get_agent_update() and, if it names another version, self_update()
\* (which asks the server again), else continue.
auto_update_check ==
    /\ Alive /\ auto_loop.at = "sleeping"
    /\ \/ \E c \in UpdateCalls :
            /\ ~c.force
            /\ c.from_url = auto_loop.from_url
            /\ auto_loop.from_url \/
                  \E info \in UpdateAnswers :
                      info.kind = "candidate" /\ info.version # VERSION
            /\ ApplyUpdate("auto", -1, c)
            /\ auto_loop' =
                  [auto_loop EXCEPT !.at =
                      IF LoopBreaks(RunUpdate(c, Reg(plugins, plugin_files),
                                              agent_file, backup_file).result)
                      THEN "stopped" ELSE "top"]
       \/ /\ ~auto_loop.from_url
          /\ \E info \in UpdateAnswers :
                 ~(info.kind = "candidate" /\ info.version # VERSION)
          /\ auto_loop' = [auto_loop EXCEPT !.at = "top"]
          /\ UNCHANGED << updateVars, restart_threads, update_call >>
    /\ UNCHANGED << server_cmds, reports, transportVars, threadVars, pluginVars,
                    restarted_by, load_call, taskVars >>

NextAuto ==
    \/ Start
    \/ Shutdown
    \/ auto_update_start
    \/ auto_update_top
    \/ auto_update_check
    \/ Tick
    \/ do_restart

SpecAuto == Init /\ [][NextAuto]_vars

\* ================================================================ claims
TerminalReports(id) == {i \in DOMAIN reports[id] : reports[id][i].status \in Terminal}

ProcessingReports(id) == {i \in DOMAIN reports[id] : reports[id][i].status = "processing"}

\* Thread t is inside execute_command, past the parse.
Executing(t) == pc[t] \in {"processing", "operate", "terminal"}

\* C1: for every command id the agent sends at most one terminal status
\* report (done or failed), whatever the interleaving of the two transports.
C1_AtMostOneTerminalReport ==
    \A id \in Ids : Cardinality(TerminalReports(id)) <= 1

\* C2: an id delivered through both transports never gets two
\* processing->terminal report sequences whose terminal outcomes disagree.
C2_NoDisagreeingTerminalReports ==
    \A id \in Ids :
        Cardinality(ProcessingReports(id)) >= 2 =>
            \A i, j \in TerminalReports(id) :
                reports[id][i].status = reports[id][j].status

\* C3: no two invocations of execute_command for the same command id are in
\* progress at the same time.
C3_OneExecutionPerId ==
    \A t1, t2 \in Threads :
        (t1 # t2 /\ Executing(t1) /\ Executing(t2)) => cur[t1].id # cur[t2].id

\* C4: for every command id, a 'processing' report precedes every terminal
\* report, also for a payload that fails to parse.
C4_ProcessingPrecedesTerminal ==
    \A id \in Ids : \A i \in TerminalReports(id) :
        \E j \in ProcessingReports(id) : j < i

\* C5: no invocation of execute_command lets an exception propagate to its
\* caller (every failure ends in the invocation's own terminal report).
C5_NoExceptionLeavesExecuteCommand ==
    \A t \in Threads : pc[t] # "raised"

\* Thread t performs (part of) an operation in this step: it changes the
\* registry, the plugin files, agent.py or its backup, starts a restart
\* thread, or obtains the operation's result.
PerformsOperation(t) ==
    /\ pc'[t] # pc[t]
    /\ \/ << plugins, plugin_files, agent_file, backup_file >>'
             # << plugins, plugin_files, agent_file, backup_file >>
       \/ \E r \in restart_threads' : r \notin restart_threads
       \/ result'[t] # result[t] /\ result[t] = NoResult

\* C6: execute_command performs no built-in operation, plugin handle, file
\* write or restart scheduling before it has issued the 'processing' report
\* of that command.
C6_ProcessingBeforeOperation ==
    [][ \A t \in Threads :
          PerformsOperation(t) =>
             /\ sentProcessing[t]
             /\ ProcessingReports(cur[t].id) # {} ]_vars

\* C6 witness: a self_update has rewritten agent.py and its backup and started
\* a restart thread, after its 'processing' report and before its terminal one.
C6_Witness ==
    /\ pc["poll"] = "terminal"
    /\ sentProcessing["poll"]
    /\ agent_file = "agent-3.0.0" /\ backup_file = "agent-2.1.0"
    /\ restart_threads # {}
    /\ ProcessingReports(cur["poll"].id) # {}

\* Thread t handles a command whose body is an unparsable string in this step.
HandlesInvalidPayload(t) ==
    /\ pc[t] = "exec"
    /\ cur[t].command.form = "invalid"
    /\ << pc[t], cur[t] >>' # << pc[t], cur[t] >>

\* C7: an unparsable body is reported 'failed' at once with the invalid-payload
\* error and nothing else happens: registry, plugin files, agent.py, backup,
\* flags and restart threads are unchanged, and the invocation is over.
C7_InvalidPayloadFailsWithoutEffect ==
    [][ \A t \in Threads :
          HandlesInvalidPayload(t) =>
             /\ reports'[cur[t].id] =
                   Append(reports[cur[t].id],
                          [status |-> "failed",
                           result |-> Result("absent", "Invalid command JSON", << >>)])
             /\ ~sentProcessing[t]
             /\ UNCHANGED << plugins, plugin_files, agent_file, backup_file,
                             ws_connected, running, restart_threads, restarted_by >>
             /\ cur'[t].id # cur[t].id
             /\ pc'[t] \in {"idle", "exec"} ]_vars

\* C7 witness: a command was failed for its invalid payload while another
\* command had already changed the registry.
C7_Witness ==
    /\ \E id \in Ids :
         /\ server_cmds[id].command.form = "invalid"
         /\ reports[id] = << [status |-> "failed",
                              result |-> Result("absent", "Invalid command JSON", << >>)] >>
    /\ plugins["nginx"] # NoPlugin
    /\ pc["poll"] = "idle"

\* C8: every failure at the command boundary is reported 'failed' with an
\* error message, and 'done' is reported only for commands that succeeded:
\* a terminal report is 'failed' exactly when its result carries an error.
C8_FailuresAreReportedFailed ==
    \A id \in Ids : \A i \in TerminalReports(id) :
        (reports[id][i].status = "failed") <=> (reports[id][i].result.error # "")

\* C9: the restart of the service by a command's restart thread happens only
\* after that command's terminal status report has been sent.
C9_RestartAfterTerminalReport ==
    restarted_by \in Ids => TerminalReports(restarted_by) # {}

\* C10: load_plugin with sha256(code) different from the checksum returns
\* failure, never executes the code, and leaves the registry (also a prior
\* handle under the name) and the plugin files exactly as they were.
C10_ChecksumMismatchIsHardFailure ==
    [][ (load_call' # load_call /\ Sha256(load_call'.code) # load_call'.checksum) =>
          /\ ~load_call'.ok
          /\ ~load_call'.executed
          /\ UNCHANGED << plugins, plugin_files >> ]_vars

\* C10 witness: a mismatching load under a name that has an active handle of
\* other source was rejected and the handle and its file are still there.
C10_Witness ==
    /\ load_call.name = "nginx"
    /\ load_call.code = "ok2"
    /\ load_call.checksum = Sha256("ok")
    /\ ~load_call.ok
    /\ plugins["nginx"] = "fail"
    /\ plugin_files["nginx"] = "fail"

\* ------------------------------------------------- update engine claims
\* An update_call record is that of a run whose fetch yielded a candidate.
HasCandidate(u) == u.by # "" /\ u.cand.kind = "candidate"

\* The stage at which the run recorded in u failed ("none": it did not fail):
\* fetch (the download raised or brought no code), verify (a supplied checksum
\* differs from the digest of the code), backup (reading agent.py or writing
\* agent.py.backup raised), write (overwriting agent.py raised).
FailedStage(u) ==
    LET c == Fetched(u.cand, u.from_url) IN
    IF u.by = "" THEN "none"
    ELSE IF u.from_url /\ u.cand.kind # "candidate" THEN "fetch"
    ELSE IF u.cand.kind # "candidate" THEN "none"
    ELSE IF VersionShortCircuit(c, u.from_url, u.force) THEN "none"
    ELSE IF c.code = "" THEN "fetch"
    ELSE IF c.checksum # "" /\ Sha256(c.code) # c.checksum THEN "verify"
    ELSE IF u.io \in {"read_fails", "backup_fails"} THEN "backup"
    ELSE IF u.io = "write_fails" THEN "write"
    ELSE "none"

Operating(type) ==
    \E t \in Threads : pc[t] = "operate" /\ cur[t].command.type = type

\* C12: every code that gets activated (a handle stored in the registry, agent
\* code written over agent.py) was verified beforehand against a digest that
\* was supplied with it: by the server's plugin list, or by the server's
\* update answer.
C12_ActivatedCodeWasVerified ==
    [][ /\ \A n \in PluginNames :
             (plugins'[n] # plugins[n] /\ plugins'[n] # NoPlugin) =>
                /\ ~started \/ Operating("sync_plugins")
                /\ \E i \in DOMAIN server_plugins :
                      /\ server_plugins[i].name = n
                      /\ server_plugins[i].code = plugins'[n]
                      /\ server_plugins[i].checksum = Sha256(plugins'[n])
        /\ (agent_file' # agent_file /\ agent_file' # "") =>
                /\ ~update_call'.from_url
                /\ update_call'.cand.code = agent_file'
                /\ update_call'.cand.checksum = Sha256(agent_file') ]_vars

\* C13 as stated: with no checksum, an agent candidate from the control plane
\* and a unit from the server's list are both activated as if verification
\* had passed.
C13_AbsentChecksumAccepted ==
    /\ (HasCandidate(update_call) /\ ~update_call.from_url
          /\ update_call.cand.checksum = "") =>
          update_call.result =
             self_update([update_call.cand EXCEPT !.checksum = Sha256(update_call.cand.code)],
                         FALSE, update_call.force, update_call.io,
                         Reg(plugins, plugin_files), agent_file, backup_file).result
    /\ (load_call # NoCall /\ load_call.checksum = "") =>
          load_call.ok = (~ExecRaises(load_call.code) /\ HasHandle(load_call.code))

\* C13 amended: with no checksum, an agent candidate from the control plane
\* is accepted unverified (self_update does what it does for a matching
\* checksum), but a unit is refused: load_plugin returns False without
\* executing the code.
C13_AbsentChecksumAgentAcceptedUnitRefused ==
    /\ (HasCandidate(update_call) /\ ~update_call.from_url
          /\ update_call.cand.checksum = "") =>
          update_call.result =
             self_update([update_call.cand EXCEPT !.checksum = Sha256(update_call.cand.code)],
                         FALSE, update_call.force, update_call.io,
                         Reg(plugins, plugin_files), agent_file, backup_file).result
    /\ (load_call # NoCall /\ load_call.checksum = "") =>
          (~load_call.ok /\ ~load_call.executed)

\* C13 witness: a working unit without checksum was refused and is not in the
\* registry, and an agent candidate without checksum was written to agent.py.
C13_Witness ==
    /\ load_call.code = "ok2" /\ load_call.checksum = "" /\ ~load_call.ok
    /\ plugins["nginx"] = NoPlugin
    /\ HasCandidate(update_call) /\ ~update_call.from_url
    /\ update_call.cand.checksum = "" /\ update_call.restart
    /\ agent_file = "agent-3.0.0"

\* Thread t runs the operation of a self_update command in this step (the
\* run's inputs and outcome are then in update_call').
RunsSelfUpdate(t) ==
    /\ pc[t] = "operate" /\ pc'[t] # pc[t]
    /\ cur[t].command.type = "self_update"

\* Thread t sends its terminal report in this step.
SendsTerminal(t) == pc[t] = "terminal" /\ pc'[t] # pc[t]

\* The last status report received for command id.
LastReport(id) == reports[id][Len(reports[id])]

MismatchResult == Result("false", "Checksum mismatch - update rejected", << >>)

C15_AppliedUpdateReportsVersionsAndBacksUp ==
    [][ \A t \in Threads :
          /\ (/\ RunsSelfUpdate(t)
              /\ HasCandidate(update_call')
              /\ FailedStage(update_call') = "none"
              /\ LET c == Fetched(update_call'.cand, update_call'.from_url) IN
                 /\ ~VersionShortCircuit(c, update_call'.from_url, update_call'.force)
                 /\ c.checksum = Sha256(c.code)) =>
                LET c == Fetched(update_call'.cand, update_call'.from_url) IN
                /\ result'[t] = Result("true", "", << "restarting", VERSION, c.version >>)
                /\ backup_file' = agent_file
                /\ agent_file' = c.code
          /\ (SendsTerminal(t) /\ result[t].success = "true"
                /\ result[t].data # << >> /\ result[t].data[1] = "restarting") =>
                LET rep == reports'[cur[t].id][Len(reports'[cur[t].id])] IN
                /\ rep.status = "done"
                /\ rep.result = result[t] ]_vars

\* C15 witness: a self_update command was reported done with old_version
\* 2.1.0 and new_version 3.0.0, the backup holds the 2.1.0 code and agent.py
\* the 3.0.0 code.
C15_Witness ==
    /\ \E id \in Ids :
         /\ server_cmds[id].command.type = "self_update"
         /\ reports[id] # << >>
         /\ LastReport(id) =
               [status |-> "done",
                result |-> Result("true", "", << "restarting", "2.1.0", "3.0.0" >>)]
    /\ update_call.cand.checksum = Sha256("agent-3.0.0")
    /\ backup_file = "agent-2.1.0" /\ agent_file = "agent-3.0.0"

\* C16: whenever the candidate's version equals the running version and force
\* is not set, self_update is a successful no-op, from the URL as from the
\* control plane: no backup, no overwrite, no restart thread.
C16_SameVersionIsNoOp ==
    [][ (/\ HasCandidate(update_call')
         /\ Fetched(update_call'.cand, update_call'.from_url).version = VERSION
         /\ ~update_call'.force) =>
           /\ update_call'.result.success = "true"
           /\ ~update_call'.restart
           /\ UNCHANGED << agent_file, backup_file, restart_threads >> ]_vars

\* C17: self_update overwrites agent.py only after the backup holds all of
\* the code agent.py held, and a failure of the fetch, of the verification or
\* of the backup leaves agent.py as it was and starts no restart thread.
C17_BackupBeforeOverwrite ==
    [][ /\ agent_file' # agent_file => backup_file' = agent_file
        /\ FailedStage(update_call') \in {"fetch", "verify", "backup"} =>
              /\ update_call'.result.success = "false"
              /\ ~update_call'.restart
              /\ UNCHANGED << agent_file, restart_threads >> ]_vars

\* C17 witness: the overwrite of agent.py failed half-way and the backup holds
\* the code agent.py had.
C17_Witness ==
    /\ FailedStage(update_call) = "write"
    /\ agent_file = "" /\ backup_file = "agent-2.1.0"

\* The stages whose failures can produce the result res.
StagesOfResult(res) ==
    { FailedStage(UpdateRecord("call", c,
                    RunUpdate(c, Reg(plugins, plugin_files), agent_file, backup_file))) :
        c \in { d \in UpdateCalls :
                  RunUpdate(d, Reg(plugins, plugin_files), agent_file, backup_file).result = res } }

\* C18: the result of a self_update that failed before the overwrite (in its
\* fetch, its verification or its backup) identifies that stage: no failure of
\* another stage returns the same result.
C18_FailureResultNamesStage ==
    FailedStage(update_call) \in {"fetch", "verify", "backup"} =>
        StagesOfResult(update_call.result) = {FailedStage(update_call)}

\* The outcome self_update has for the inputs recorded in u, in this state.
OutcomeOf(u) ==
    RunUpdate(UpdateCall(u.cand, u.from_url, u.force, u.io),
              Reg(plugins, plugin_files), agent_file, backup_file)

\* C19: auto_update_loop applies an update exactly as self_update does; after
\* a check that applied one (success with restarting) it has left its loop and
\* checks no more; after any other check it is back at the top of its loop,
\* from where it sleeps and checks again as long as the agent is running.
C19_AutoUpdateStopsAfterApply ==
    [][ /\ auto_loop.at = "stopped" =>
              /\ auto_loop' = auto_loop
              /\ UNCHANGED << agent_file, backup_file, update_call >>
        /\ (auto_loop.at = "sleeping" /\ auto_loop' # auto_loop) =>
              /\ auto_loop'.at = IF restart_threads' # restart_threads
                                 THEN "stopped" ELSE "top"
              /\ update_call' # update_call =>
                    /\ update_call'.by = "auto"
                    /\ agent_file' = OutcomeOf(update_call').agent_file
                    /\ backup_file' = OutcomeOf(update_call').backup_file
                    /\ update_call'.result = OutcomeOf(update_call').result
                    /\ (restart_threads' # restart_threads)
                          = (update_call'.result.success = "true"
                               /\ "restarting" \in
                                    {update_call'.result.data[i] :
                                        i \in DOMAIN update_call'.result.data})
        /\ (auto_loop.at = "top" /\ auto_loop' # auto_loop) =>
              auto_loop'.at = IF running THEN "sleeping" ELSE "exited" ]_vars

\* C19 witness: the loop applied the 3.0.0 update and has left its loop while
\* the agent is still running.
C19_Witness ==
    /\ auto_loop.at = "stopped" /\ running
    /\ update_call.by = "auto" /\ update_call.restart
    /\ agent_file = "agent-3.0.0" /\ backup_file = "agent-2.1.0"

\* C20: a restart thread is started only by the update engine, after it has
\* verified a candidate against its checksum and written it to agent.py in
\* the same operation.
C20_RestartOnlyAfterVerifiedReplacement ==
    [][ restart_threads' # restart_threads =>
          /\ Operating("self_update")
          /\ update_call'.restart
          /\ agent_file' = update_call'.cand.code
          /\ Sha256(agent_file') = Fetched(update_call'.cand, update_call'.from_url).checksum
       ]_vars

\* ------------------------------------------------------------ SpecBackup
\* self_update's three file steps (lines 572-581), one at a time, in the two
\* threads that can be inside self_update together: a thread executing a
\* self_update command and the auto_update_loop thread. Nothing in
\* self_update takes a lock, so the steps of the two interleave freely.
BackupIdle == << server_cmds, reports, transportVars, threadVars, pluginVars,
                restartVars, load_call, update_call, auto_loop, exec_call,
                loaders, heartbeat, pongs >>

\* Lines 480-566: thread t has fetched and verified a candidate and goes on
\* to the backup.
update_begin(t) ==
    /\ Alive /\ updaters[t].at = "idle"
    /\ \E c \in AgentCodes :
         updaters' = [updaters EXCEPT ![t] = [at |-> "read", current_code |-> "",
                                              new_code |-> c]]
    /\ UNCHANGED << updateVars, BackupIdle >>

\* Lines 572-573: current_code = f.read() of agent.py.
update_read(t) ==
    /\ Alive /\ updaters[t].at = "read"
    /\ updaters' = [updaters EXCEPT ![t].at = "backup",
                                    ![t].current_code = agent_file]
    /\ UNCHANGED << updateVars, BackupIdle >>

\* Lines 574-575: agent.py.backup is written with current_code.
update_backup(t) ==
    /\ Alive /\ updaters[t].at = "backup"
    /\ backup_file' = BackupAtOverwrite(updaters[t].current_code, backup_file)
    /\ updaters' = [updaters EXCEPT ![t].at = "write"]
    /\ UNCHANGED << agent_file, BackupIdle >>

\* Lines 580-581: agent.py is overwritten with new_code; the rest of
\* self_update touches no file.
update_write(t) ==
    /\ Alive /\ updaters[t].at = "write"
    /\ agent_file' = updaters[t].new_code
    /\ updaters' = [updaters EXCEPT ![t] = NoUpdater]
    /\ UNCHANGED << backup_file, BackupIdle >>

NextBackup ==
    \/ \E t \in UpdateThreads : update_begin(t)
    \/ \E t \in UpdateThreads : update_read(t)
    \/ \E t \in UpdateThreads : update_backup(t)
    \/ \E t \in UpdateThreads : update_write(t)

SpecBackup == Init /\ [][NextBackup]_vars

\* ----------------------------------------------------------- SpecDeliver
\* A new_command frame is lost on its way (or was never pushed).
LoseFrame ==
    /\ conn = "Open" /\ frames # << >>
    /\ frames' = Tail(frames)
    /\ UNCHANGED << server_cmds, reports, conn, ws_connected, running, started,
                    threadVars, pluginVars, updateVars, restartVars, callVars >>

\* poll_commands against a control plane that answers: the fetch returns the
\* pending commands whenever there are some.
poll_commands_answered(t) ==
    /\ poll_commands(t)
    /\ get_pending_commands # << >> => pc'[t] = "exec"

\* Delivery of commands over a connection that stays up once it is open,
\* with a control plane that answers every request.
NextDeliver ==
    \/ Start
    \/ CreateCommand(ConnPayloads)
    \/ LoseFrame
    \/ on_ws_open
    \/ on_ws_message
    \/ polling_loop
    \/ \E t \in Threads : poll_commands_answered(t)
    \/ \E t \in Threads : ExecStart(t)
    \/ \E t \in Threads : ReportProcessing(t)
    \/ \E t \in Threads : Operate(t)
    \/ \E t \in Threads : ReportTerminal(t)

\* Every thread of the agent is scheduled and every request is answered:
\* each step of the agent that stays possible is eventually taken.
SpecDeliver ==
    /\ Init /\ [][NextDeliver]_vars
    /\ WF_vars(Start) /\ WF_vars(on_ws_open) /\ WF_vars(on_ws_message)
    /\ WF_vars(polling_loop)
    /\ \A t \in Threads :
          /\ WF_vars(poll_commands_answered(t))
          /\ WF_vars(ExecStart(t))
          /\ WF_vars(ReportProcessing(t))
          /\ WF_vars(Operate(t))
          /\ WF_vars(ReportTerminal(t))

\* ------------------------------------------------------------ SpecFrames
\* The websocket handler fed with new_command, ping, unknown and malformed
\* frames while the connection comes and goes.
NextFrames ==
    \/ Start
    \/ CreateCommand(ConnPayloads)
    \/ SendControlFrame
    \/ SendMalformedFrame
    \/ on_ws_open
    \/ on_ws_message
    \/ on_ws_error
    \/ on_ws_close
    \/ reconnect
    \/ poll_commands("ws")
    \/ ExecStart("ws")
    \/ ReportProcessing("ws")
    \/ Operate("ws")
    \/ ReportTerminal("ws")

SpecFrames == Init /\ [][NextFrames]_vars

\* ------------------------------------------------------------- SpecLoops
\* plugin_sync_loop lines 843-844: while self.running, then the sleep.
plugin_sync_top ==
    /\ Alive /\ started /\ loaders["sync"].at = "idle"
    /\ loaders' = [loaders EXCEPT !["sync"].at = IF running THEN "sync" ELSE "exited"]
    /\ UNCHANGED << server_cmds, reports, transportVars, threadVars, pluginVars,
                    updateVars, restartVars, load_call, update_call, auto_loop,
                    exec_call, heartbeat, wireVars >>

\* plugin_sync_loop lines 846-849: a pass in which Agent.sync_plugins raises
\* (a list entry without 'checksum', an answer that is no list) and the except
\* clause catches it, or in which the server answers no plugins.
plugin_sync_pass ==
    /\ Alive /\ loaders["sync"].at = "sync"
    /\ \/ loaders' = [loaders EXCEPT !["sync"].at = ResumeAfterFault("idle")]
       \/ loaders' = [loaders EXCEPT !["sync"].at = "idle"]
    /\ UNCHANGED << server_cmds, reports, transportVars, threadVars, pluginVars,
                    updateVars, restartVars, load_call, update_call, auto_loop,
                    exec_call, heartbeat, wireVars >>

\* auto_update_loop lines 865-890: a check in which get_agent_update or
\* self_update raises and the except clause of line 889 catches it.
auto_update_fault ==
    /\ Alive /\ auto_loop.at = "sleeping"
    /\ auto_loop' = [auto_loop EXCEPT !.at = ResumeAfterFault("top")]
    /\ UNCHANGED << server_cmds, reports, transportVars, threadVars, pluginVars,
                    updateVars, restartVars, load_call, update_call, taskVars >>

\* The five long-lived tasks next to each other while the control plane
\* answers nothing useful: posts fail, polls come back empty or fail, syncs
\* and update checks raise, frames are malformed.
NextLoops ==
    \/ Start
    \/ Shutdown
    \/ heartbeat_start
    \/ heartbeat_top
    \/ heartbeat_post
    \/ polling_loop
    \/ \E t \in Threads : poll_commands(t)
    \/ plugin_sync_top
    \/ plugin_sync_pass
    \/ auto_update_start
    \/ auto_update_top
    \/ auto_update_fault
    \/ on_ws_open
    \/ SendMalformedFrame
    \/ on_ws_message
    \/ on_ws_error
    \/ on_ws_close
    \/ reconnect

SpecLoops == Init /\ [][NextLoops]_vars

\* ================================ claims: registry, transports, loops
\* ------------------------------------------------------------------ C21
\* The name of the last execute_plugin call can be looked up and is not
\* active in the registry the call saw.
CalledInactiveName ==
    /\ exec_call.name # "" /\ Hashable(exec_call.name)
    /\ exec_call.name \in PluginNames => exec_call.reg[exec_call.name] = NoPlugin

C22_ExecutePluginNeverRaises ==
    exec_call.name # "" =>
       /\ exec_call.result.success \in {"true", "false"}
       /\ (exec_call.name \in PluginNames /\ Hashable(exec_call.name)) =>
             LET code == exec_call.reg[exec_call.name] IN
             /\ code = "raise" => exec_call.result.success = "false"
             /\ code = "nosuccess" => exec_call.result.success = "true"
             /\ code = "bare" => exec_call.result = Result("true", "", << "result" >>)

\* ------------------------------------------------------------------ C23
\* C23: the registry maps a name to one handle, and a load or reload under an
\* existing name replaces it in one step: no step leaves an active name
\* without a handle, and a successful load_plugin stores the new handle
\* under its name and changes no other name's handle.
C23_HandleReplacedInOneStep ==
    [][ /\ \A n \in PluginNames : plugins[n] # NoPlugin => plugins'[n] # NoPlugin
        /\ (load_call' # load_call /\ load_call'.ok) =>
              /\ plugins'[load_call'.name] = load_call'.code
              /\ \A n \in PluginNames \ {load_call'.name} : plugins'[n] = plugins[n] ]_vars

\* A successful load_plugin replaced the handle of shell, which was active
\* from the start, while nginx was active too.
C23_Witness ==
    /\ load_call.ok /\ load_call.name = "shell" /\ load_call.code = "ok2"
    /\ plugins["shell"] = "ok2"
    /\ plugins["nginx"] = "fail"

\* ------------------------------------------------------------------ C24
\* plugins/<name>.py exists, executes and defines handle.
LoadsFromDisk(n) ==
    /\ plugin_files[n] # NoPlugin
    /\ ~ExecRaises(plugin_files[n])
    /\ HasHandle(plugin_files[n])

\* The polling thread performs the operation of a reload_plugins command.
ReloadStep ==
    /\ pc["poll"] = "operate" /\ pc'["poll"] = "terminal"
    /\ cur["poll"].command.type = "reload_plugins"

\* C24 as stated: after a reload_plugins command every unit whose file on
\* disk loads is active with that file's handle, and a unit whose file has no
\* handle or fails to load is not active; the command succeeds.
C24_ReloadDeactivatesUnloadable ==
    [][ ReloadStep =>
          /\ result'["poll"].success = "true"
          /\ \A n \in PluginNames :
                IF LoadsFromDisk(n) THEN plugins'[n] = plugin_files[n]
                ELSE plugin_files[n] # NoPlugin => plugins'[n] = NoPlugin ]_vars

\* C24 as the code has it: every unit whose file loads is active with that
\* file's handle; a file without handle or that fails to load is skipped,
\* which leaves the registry entry of its name as it was; the scan reaches
\* every file and the command succeeds.
C24_ReloadActivatesLoadableSkipsOthers ==
    [][ ReloadStep =>
          /\ result'["poll"].success = "true"
          /\ plugin_files' = plugin_files
          /\ \A n \in PluginNames :
                IF LoadsFromDisk(n) THEN plugins'[n] = plugin_files[n]
                ELSE plugins'[n] = plugins[n] ]_vars

\* A reload made the edited shell live and skipped nginx, whose file lost
\* its handle: the handle nginx had before is still the active one.
C24_Witness ==
    /\ pc["poll"] = "terminal" /\ cur["poll"].command.type = "reload_plugins"
    /\ plugin_files["shell"] = "ok2" /\ plugins["shell"] = "ok2"
    /\ plugin_files["nginx"] = "nohandle" /\ plugins["nginx"] = "ok"

\* ------------------------------------------------------------------ C25
\* No thread is inside load_plugin.
NoLoadInProgress == \A t \in SyncThreads : loaders[t].at = "idle"

\* C25: whenever no load is in progress, every active unit has a file on disk
\* that holds the source of its active handle, also after load_plugin calls
\* of two threads for the same name.
C25_ActiveUnitsArePersisted ==
    NoLoadInProgress =>
       \A n \in PluginNames : plugins[n] # NoPlugin => plugin_files[n] = plugins[n]

\* ------------------------------------------------------------------ C26
\* C26: polling_loop starts a poll cycle only in a state in which the
\* ws_connected flag is false (and the agent is running), and a pass of the
\* loop made while the flag is false starts one.
C26_PollSuppressedWhileConnected ==
    [][ /\ (pc["poll"] = "idle" /\ pc'["poll"] = "fetch") => (~ws_connected /\ running)
        /\ (pc["poll"] = "idle" /\ pc'["poll"] # "idle" /\ running /\ ~ws_connected)
              => pc'["poll"] = "fetch" ]_vars

\* The websocket is connected, a command is pending at the control plane,
\* and the polling thread sits idle in its loop.
C26_Witness ==
    /\ started /\ running /\ ws_connected
    /\ pc["poll"] = "idle"
    /\ get_pending_commands # << >>

\* ------------------------------------------------------------------ C27
\* C27: when the connection opens, the flag is set and one poll cycle starts
\* on the websocket thread; the cycle takes every command pending at the
\* control plane and ends only when each of them was dispatched; the end of
\* the cycle, failed or not, leaves the connection as it is.
C27_OpenDispatchesEveryPendingCommand ==
    [][ /\ (conn # "Open" /\ conn' = "Open") => (ws_connected' /\ pc'["ws"] = "fetch")
        /\ (pc["ws"] = "fetch" /\ pc'["ws"] = "exec")
              => << cur'["ws"] >> \o batch'["ws"] = PendingFrom(1)
        /\ (pc["ws"] \notin {"idle", "reconnect"} /\ pc'["ws"] = "idle")
              => (batch["ws"] = << >> /\ conn' = conn /\ ws_connected' = ws_connected) ]_vars

\* ------------------------------------------------------------------ C28
\* C28: every entry into Closed puts the websocket thread into the delay
\* after which it connects again if the agent is still running and does
\* nothing if it is not; nothing else leaves Closed; and under fairness a
\* started agent in Closed gets to Connecting unless it is shut down.
C28_ClosedIsFollowedByReconnect ==
    /\ [][ /\ (conn # "Closed" /\ conn' = "Closed") => pc'["ws"] = "reconnect"
           /\ (pc["ws"] = "reconnect" /\ pc'["ws"] # "reconnect")
                 => conn' = IF running THEN "Connecting" ELSE "Closed"
           /\ (conn = "Closed" /\ conn' # "Closed") => (conn' = "Connecting" /\ running)
         ]_vars
    /\ ((conn = "Closed" /\ started) ~> (conn = "Connecting" \/ ~running))

\* The connection was closed while the agent is running: the websocket
\* thread is in the delay before its next attempt.
C28_Witness ==
    /\ started /\ running
    /\ conn = "Closed" /\ pc["ws"] = "reconnect"

\* ------------------------------------------------------------------ C29
\* C29: while the agent is running the heartbeat loop posts again and again,
\* whatever the transports and the command threads do (also if they never
\* move again); a heartbeat reports 'online' exactly when ws_connected is
\* true at that moment and 'polling' otherwise, and no step of the loop
\* changes the flag.
C29_HeartbeatsKeepComing ==
    /\ [][ heartbeat' # heartbeat =>
             /\ ws_connected' = ws_connected
             /\ (heartbeat.at = "post" /\ heartbeat'.status # "failed") =>
                   heartbeat'.status = IF ws_connected THEN "online" ELSE "polling" ]_vars
    /\ ([]<><<heartbeat_post>>_heartbeat \/ <>(~running) \/ []~started)

\* A heartbeat reported 'online' while the websocket thread was in the
\* middle of a command.
C29_Witness ==
    /\ heartbeat.status = "online" /\ heartbeat.at = "top"
    /\ ws_connected /\ running
    /\ pc["ws"] = "operate"

\* ------------------------------------------------------------------ C30
\* A long-lived loop has left its while: only possible once the agent is
\* not running any more.
LoopsEndOnlyAtShutdown ==
    /\ heartbeat.at = "exited" => ~running
    /\ pc["poll"] = "exited" => ~running
    /\ loaders["sync"].at = "exited" => ~running
    /\ auto_loop.at \in {"exited", "stopped"} => ~running

\* C30: no loop ends because of a fault of one of its iterations: a loop is
\* out of its while only when the agent is not running, and a failed
\* heartbeat post, poll, sync or update check leaves its loop at the while
\* test, a malformed frame leaves the connection open and the message
\* handler ready for the next frame.
C30_FaultsDoNotEndLoops ==
    /\ []LoopsEndOnlyAtShutdown
    /\ [][ /\ (heartbeat.at = "post" /\ heartbeat' # heartbeat) => heartbeat'.at = "top"
           /\ (pc["poll"] = "fetch" /\ pc'["poll"] # "fetch")
                 => pc'["poll"] \in {"idle", "exec"}
           /\ (loaders["sync"].at = "sync" /\ loaders' # loaders)
                 => loaders'["sync"].at = "idle"
           /\ (auto_loop.at = "sleeping" /\ auto_loop' # auto_loop /\ update_call' = update_call)
                 => auto_loop'.at = "top"
           /\ (frames # << >> /\ Head(frames) = MalformedFrame /\ frames' = Tail(frames)
                 /\ ws_connected')
                 => (conn' = "Open" /\ pc'["ws"] = "idle" /\ pc' = pc) ]_vars

\* Every loop is in its next iteration after a failed one: the heartbeat
\* loop posts again after a failed post, the sync and update loops have
\* gone through a pass, the polling loop fetches, the connection is open.
C30_Witness ==
    /\ running
    /\ heartbeat = [at |-> "post", status |-> "failed"]
    /\ pc["poll"] = "idle" /\ loaders["sync"].at = "sync"
    /\ auto_loop.at = "sleeping"
    /\ conn = "Open" /\ frames = << MalformedFrame >>

\* ------------------------------------------------------------------ C31
\* C31: once the running flag is cleared no long-lived loop starts another
\* iteration: the heartbeat loop makes no post, the polling loop no poll,
\* the plugin sync loop no sync and the update loop no update check.
C31_NoIterationAfterShutdown ==
    [][ ~running =>
          /\ ~(heartbeat.at = "top" /\ heartbeat'.at = "post")
          /\ ~(pc["poll"] = "idle" /\ pc'["poll"] = "fetch")
          /\ ~(loaders["sync"].at = "sync" /\ loaders'["sync"].at # "sync")
          /\ ~(auto_loop.at = "sleeping" /\ auto_loop'.at # "sleeping") ]_vars

\* ------------------------------------------------------------------ C32
\* C32: a frame that has arrived on the open connection can be handled
\* whatever the websocket thread is doing, in particular while a command
\* that came over the connection is being executed.
C32_FramesHandledWhileCommandRuns ==
    (Alive /\ conn = "Open" /\ frames # << >>) => ENABLED on_ws_message

\* ------------------------------------------------------------------ C33
\* The handler takes the frame f off the connection in this step (the
\* connection stays up, so the step is not an error or a close).
HandlesFrame(f) ==
    /\ frames # << >> /\ Head(frames) = f /\ frames' = Tail(frames)
    /\ conn = "Open" /\ conn' = "Open" /\ ws_connected'

\* Everything but the frames in flight and the pongs sent.
AgentState ==
    << server_cmds, reports, conn, ws_connected, running, started, threadVars,
       pluginVars, updateVars, restartVars, load_call, update_call, auto_loop,
       exec_call, loaders, heartbeat, updaters >>

\* C33: handling a ping frame sends exactly one pong and changes nothing
\* else; handling a frame of unknown type sends nothing and changes nothing;
\* no other step sends a pong.
C33_PingAnsweredByOnePong ==
    [][ /\ HandlesFrame(PingFrame) => (pongs' = pongs + 1 /\ AgentState' = AgentState)
        /\ HandlesFrame(UnknownFrame) => (pongs' = pongs /\ AgentState' = AgentState)
        /\ pongs' # pongs => (frames # << >> /\ Head(frames) = PingFrame) ]_vars

\* Two pings were answered while a command had been executed and reported.
C33_Witness ==
    /\ pongs = 2 /\ conn = "Open"
    /\ Len(server_cmds) > 0 /\ server_cmds[1].status = "done"

\* ------------------------------------------------------------------ C34
\* C34: a poll cycle of the polling thread ends only when every command of
\* the fetched batch was handed to execute_command, however the commands
\* before it ended; and the commands are taken in the order of the batch.
C34_WholeBatchIsDispatched ==
    [][ /\ (pc["poll"] \in {"exec", "processing", "operate", "terminal", "raised"}
             /\ pc'["poll"] = "idle")
              => batch["poll"] = << >>
        /\ (batch["poll"] # << >> /\ batch'["poll"] # batch["poll"] /\ pc'["poll"] = "exec")
              => (cur'["poll"] = Head(batch["poll"]) /\ batch'["poll"] = Tail(batch["poll"]))
      ]_vars

\* ------------------------------------------------------------------ C35
\* C35: every command that is pending is eventually reported with a
\* terminal status.
C35_PendingIsEventuallyTerminal ==
    \A c \in 1..MaxCmds :
        (Len(server_cmds) >= c /\ server_cmds[c].status = "pending")
           ~> (Len(server_cmds) >= c /\ server_cmds[c].status \in Terminal)

\* ------------------------------------------------------------------ C36
\* C36: a load_plugin call that returns failure leaves the registry exactly
\* as it was before the call.
C36_FailedLoadLeavesRegistry ==
    [][ (load_call' # load_call /\ ~load_call'.ok) => plugins' = plugins ]_vars

\* ------------------------------------------------------------------ C37
\* C37: no step removes a name from the registry, and an active name's handle
\* changes only to a handle that was loaded successfully: the code of a
\* load_plugin call of that name that returned success (and wrote its file),
\* or the code a reload read from its file.
C37_ActiveUnitKeepsLastLoadedHandle ==
    [][ \A n \in PluginNames :
          plugins[n] # NoPlugin =>
             /\ plugins'[n] # NoPlugin
             /\ plugins'[n] # plugins[n] =>
                   \/ /\ load_call'.ok /\ load_call'.name = n
                      /\ plugins'[n] = load_call'.code
                      /\ plugin_files'[n] = load_call'.code
                   \/ /\ plugin_files' = plugin_files
                      /\ plugins'[n] = plugin_files[n] ]_vars

\* ------------------------------------------------------------------ C40
\* C40: when a command's operation ends without raising, the terminal report
\* carries the operation's result unchanged, with status 'done' exactly when
\* the result has no success entry or a true one, and 'failed' exactly when
\* its success entry is false.
C40_StatusFollowsSuccessField ==
    [][ \A t \in Threads :
          (SendsTerminal(t) /\ result[t].success # "raised") =>
             LET sent == reports'[cur[t].id][Len(reports'[cur[t].id])] IN
             /\ Len(reports'[cur[t].id]) = Len(reports[cur[t].id]) + 1
             /\ sent.result = result[t]
             /\ sent.status = "done" <=> result[t].success \in {"absent", "true"}
             /\ sent.status = "failed" <=> result[t].success = "false" ]_vars

\* Both cases happened: a ping, whose result has no success entry, was
\* reported done, and a command whose result says success false was
\* reported failed.
C40_Witness ==
    /\ Len(server_cmds) = 2
    /\ server_cmds[1].command.type = "ping"
    /\ reports[1] # << >> /\ LastReport(1).status = "done"
    /\ LastReport(1).result.success = "absent"
    /\ reports[2] # << >> /\ LastReport(2).status = "failed"
    /\ LastReport(2).result.success = "false"

\* ------------------------------------------------------------------ C39
\* C39: there is one realtime connection at a time: a connection starts
\* connecting only when the previous one is closed, either in start() (once)
\* or in the close handler of the previous one; it opens only from
\* connecting; ws_connected becomes true only at the open event, is true only
\* while that connection is open or being closed, and the connection's next
\* error or close event makes it false.
C39_OneConnectionAtATime ==
    [][ /\ (conn' = "Connecting" /\ conn # "Connecting") =>
              /\ conn = "Closed"
              /\ (~started /\ started') \/ (started /\ pc["ws"] = "reconnect")
        /\ (conn' = "Open" /\ conn # "Open") => conn = "Connecting"
        /\ (ws_connected' /\ ~ws_connected) => (conn = "Connecting" /\ conn' = "Open")
        /\ ws_connected' => conn' \in {"Open", "Closing"}
        /\ (ws_connected /\ conn' # conn /\ running' = running) => ~ws_connected' ]_vars

\* The close handler of a connection that had been open has run: the flag is
\* false, nothing is connecting, and the handler is about to connect again.
C39_Witness ==
    /\ started /\ running /\ Alive
    /\ conn = "Closed" /\ ~ws_connected
    /\ pc["ws"] = "reconnect"
    /\ Len(server_cmds) > 0 /\ server_cmds[1].status = "done"

\* ------------------------------------------------------------------ C38
\* C38: when a self_update overwrites agent.py, the backup file holds the
\* code that agent.py held immediately before that overwrite, however the
\* file steps of two self_update runs interleave.
C38_BackupIsCodeBeforeOverwrite ==
    [][ \A t \in UpdateThreads :
          (updaters[t].at = "write" /\ updaters'[t].at = "idle") =>
             /\ agent_file' = updaters[t].new_code
             /\ backup_file' = agent_file ]_vars

====
